---- MODULE Spec2Model ----
(***************************************************************************)
(* The lifecycle controller of src/core/core.js: one p5 instance, the      *)
(* window it runs in, and the event loop (timers, frame requests, loader   *)
(* completions) that drives it.                                            *)
(*                                                                         *)
(* JavaScript runs one callback at a time, so every action below is one    *)
(* whole callback (or one whole call made by user code), except the user   *)
(* preload hook, whose loader calls are separate steps while pc="preload". *)
(* `out` holds what the last step did, in order: the user hooks it invoked *)
(* and the internal calls it made. A second instance on the same page is   *)
(* present only through what its construction and its remove() do to       *)
(* window.                                                                 *)
(***************************************************************************)
EXTENDS Integers, Sequences, FiniteSets

VARIABLES
  pc,            \* "none" | "awaitReady" | "preload" | "idle"
  p,             \* the p5 instance (this)
  window,        \* the global namespace: names present, their values, user functions
  env,           \* the event loop: armed timers, frame requests, loads in flight,
                 \* listeners; and whether a second instance shares the page
  _removeFuncs,  \* p5.prototype._removeFuncs
  out,           \* calls made by the last step, in order
  h              \* bookkeeping: loader calls made, how remove() ended ("no" while
                 \* no call has torn down, then "returned" or "threw"), names put
                 \* on window before that

vars == <<pc, p, window, env, _removeFuncs, out, h>>

\* Bounds of the model.
MaxLoads  == 2   \* loader calls made through the counting wrappers
MaxFrames == 2   \* firings of the frame-count ticker
MaxReqs   == 2   \* frame requests pending at once
MaxDepth  == 1   \* drawing-state checkpoints left behind by throwing draw hooks
MaxHooks  == 2   \* registered removal hooks
MaxElts   == 2   \* element records

\* Two of the thirteen event types of _events stand for all of them.
EventNames == {"mousemove", "keydown"}

Hooks == {"preload", "setup", "draw"}

\* Names the controller may put on window. "_setProperty" stands for the
\* instance's own bound methods (_setProperty, _setup, _runFrames, _draw,
\* _preload), which are copied and deleted together; "loadFuncs" for the
\* loader capabilities of _preloadFuncs.
OwnNames   == {"_setupDone", "_loop", "_preloadCount", "_updateInterval", "_setProperty"}
ProtoNames == {"frameCount", "loadFuncs"}
WinNames   == OwnNames \cup ProtoNames \cup {"focused"}

\* The name registered i-th in _removeFuncs.
HookTag(i) == <<"hook1", "hook2", "hook3", "hook4">>[i]

_preloadFuncs == "loadFuncs"

-----------------------------------------------------------------------------
\* The world a call runs in; the operators below are the methods of core.js
\* as functions from world to world.

World == [p |-> p, window |-> window, env |-> env, out |-> out, h |-> h,
          thrown |-> FALSE]

Log(w, e) == [w EXCEPT !.out = Append(@, e)]

\* Bookkeeping: the names put on window before any teardown.
Exposing(w, names) ==
  IF w.h.removed = "no" THEN [w EXCEPT !.h.exposed = @ \cup names] ELSE w

\* this[prop] = value; if (this._isGlobal) window[prop] = value
_setProperty(w, prop, value) ==
  LET w1 == [w EXCEPT !.p[prop] = value] IN
  IF w.p._isGlobal
    THEN Exposing([w1 EXCEPT !.window.v[prop] = value,
                             !.window.present = @ \cup {prop}], {prop})
    ELSE w1

\* var context = this._isGlobal ? window : this, for the reads made through it.
CtxHooks(w)     == IF w.p._isGlobal THEN w.window.hooks ELSE w.p.hooks
CtxLoadFuncs(w) == IF w.p._isGlobal
                     THEN IF _preloadFuncs \in w.window.present
                            THEN w.window.v.loadFuncs ELSE "undefined"
                     ELSE w.p.loadFuncs
CtxCount(w)     == IF w.p._isGlobal THEN w.window.v._preloadCount
                                    ELSE w.p._preloadCount
\* context._setProperty, context._setup, ... resolve unless deleted from window.
CtxMethods(w)   == w.p._isGlobal => "_setProperty" \in w.window.present

SetCtxLoadFuncs(w, val) ==
  IF w.p._isGlobal
    THEN Exposing([w EXCEPT !.window.v.loadFuncs = val,
                            !.window.present = @ \cup {_preloadFuncs}],
                  {_preloadFuncs})
    ELSE [w EXCEPT !.p.loadFuncs = val]

\* this.X || window.X
UserHook(w, name) == name \in w.p.hooks \/ name \in w.window.hooks

\* The default canvas: becomes the current element and is recorded in _elements.
createCanvas(w) ==
  [w EXCEPT !.p._curElement = TRUE,
            !.p._elements = Append(@, [attached |-> TRUE, evts |-> FALSE])]

_setup(w) ==
  LET w1 == IF "preload" \in CtxHooks(w) THEN SetCtxLoadFuncs(w, "proto") ELSE w
      w2 == IF "setup" \in CtxHooks(w1) THEN Log(w1, "setup") ELSE w1
  IN  Log([w2 EXCEPT !.p._setupDone = TRUE], "setupDone")

\* A faulty variant: the ticker armed before is not cancelled.
_runFramesNoClear(w) ==
  Log([w EXCEPT !.env.ticker = @ + 1, !.p._updateInterval = 1], "runFrames")

_runFrames(w) ==
  LET w1 == IF w.p._updateInterval # 0
              THEN [w EXCEPT !.env.ticker = IF @ > 0 THEN @ - 1 ELSE 0]
              ELSE w
  IN  Log([w1 EXCEPT !.env.ticker = @ + 1, !.p._updateInterval = 1], "runFrames")

\* A faulty variant: the next cycle is armed after the draw hook has returned.
_drawArmsLast(w, drawOutcome) ==
  LET w0 == Log(w, "_draw")
      w1 == IF UserHook(w0, "draw")
              THEN IF drawOutcome = "throws"
                     THEN [Log(w0, "draw") EXCEPT !.p.styles = @ + 1, !.thrown = TRUE]
                     ELSE Log(w0, "draw")
              ELSE w0
      wc == IF w1.p._drawInterval # 0
              THEN [w1 EXCEPT !.env.timeout = IF @ > 0 THEN @ - 1 ELSE 0]
              ELSE w1
  IN  IF w1.p._loop /\ ~w1.thrown
        THEN [wc EXCEPT !.env.timeout = @ + 1, !.p._drawInterval = 1]
        ELSE w1

\* drawOutcome: what the user draw hook does this time, "ok" or "throws".
_draw(w, drawOutcome) ==
  LET w0 == Log(w, "_draw")
      wc == IF w0.p._drawInterval # 0
              THEN [w0 EXCEPT !.env.timeout = IF @ > 0 THEN @ - 1 ELSE 0]
              ELSE w0
      w1 == IF w0.p._loop
              THEN [wc EXCEPT !.env.timeout = @ + 1, !.p._drawInterval = 1]
              ELSE w0
  IN  IF UserHook(w1, "draw")
        THEN IF drawOutcome = "throws"
               THEN [Log(w1, "draw") EXCEPT !.p.styles = @ + 1, !.thrown = TRUE]
               ELSE Log(w1, "draw")
        ELSE w1

\* A faulty variant: the first draw runs before setup.
DrawRunSetup(w, drawOutcome) == _setup(_runFrames(_draw(w, drawOutcome)))

\* _setup(); _runFrames(); _draw();
SetupRunDraw(w, drawOutcome) == _draw(_runFrames(_setup(w)), drawOutcome)

\* What a user draw hook may do when called: return, or throw. D is the set
\* of outcomes a specification admits; the checkpoints a throwing hook leaves
\* behind are capped by MaxDepth.
AnyOutcome == {"ok", "throws"}
Returns    == {"ok"}
DrawOutcomes(D) == {d \in D : d = "throws" => p.styles < MaxDepth}

Apply(w) ==
  /\ p' = w.p
  /\ window' = w.window
  /\ env' = w.env
  /\ out' = w.out
  /\ h' = w.h

-----------------------------------------------------------------------------
NoWindowVals == [_setupDone |-> FALSE, _loop |-> TRUE, _preloadCount |-> 0,
                 _updateInterval |-> 0, frameCount |-> 0, focused |-> "undefined",
                 loadFuncs |-> "proto"]

NewInstance == [_setupDone |-> FALSE, _curElement |-> FALSE, _elements |-> <<>>,
                _preloadCount |-> 0, _updateInterval |-> 0, _drawInterval |-> 0,
                _isGlobal |-> FALSE, _loop |-> TRUE, styles |-> 0,
                _events |-> [e \in EventNames |-> FALSE],
                frameCount |-> 0, focused |-> "undefined",
                loadFuncs |-> "proto", hooks |-> {}, on |-> {}]

Init ==
  /\ pc = "none"
  /\ p = NewInstance
  /\ window = [present |-> {}, v |-> NoWindowVals, hooks |-> {}]
  /\ env = [readyState |-> "loading", ticker |-> 0, timeout |-> 0, frameReqs |-> 0,
            loads |-> 0, listeners |-> [e \in EventNames |-> 0], other |-> "none"]
  /\ _removeFuncs = <<>>
  /\ out = <<>>
  /\ h = [loadsMade |-> 0, removed |-> "no", exposed |-> {}]

-----------------------------------------------------------------------------
\* p5.prototype._registerRemoveFunc: extensions register their cleanup when
\* they are loaded, before a sketch is constructed.
RegisterRemoveFunc ==
  /\ pc = "none"
  /\ Len(_removeFuncs) < MaxHooks
  /\ _removeFuncs' = Append(_removeFuncs, HookTag(Len(_removeFuncs) + 1))
  /\ out' = <<"_registerRemoveFunc">>
  /\ UNCHANGED <<pc, p, window, env, h>>

\* A faulty variant: without a preload hook, setup is left to a later callback.
_startNoSetup(w, drawOutcome) ==
  LET w1 == createCanvas(Log(w, "_start")) IN
  IF UserHook(w1, "preload")
    THEN Log(SetCtxLoadFuncs(w1, "wrapped"), "preload")
    ELSE w1

\* _start, up to and including the call of the user preload hook if there is one.
_start(w, drawOutcome) ==
  LET w1 == createCanvas(Log(w, "_start")) IN
  IF UserHook(w1, "preload")
    THEN Log(SetCtxLoadFuncs(w1, "wrapped"), "preload")
    ELSE SetupRunDraw(w1, drawOutcome)

\* A faulty variant: a hook found on the instance is subscribed twice.
BindEventsTwice(w) ==
  [w EXCEPT !.env.listeners = [e \in EventNames |->
                                 IF e \in w.p.on THEN @[e] + 2 ELSE @[e]],
            !.p._events = [e \in EventNames |-> e \in w.p.on]]

\* Lines 376-384: bind events to window. Each on<event> hook found on the
\* instance is bound, subscribed and recorded in _events.
BindEvents(w) ==
  [w EXCEPT !.env.listeners = [e \in EventNames |->
                                 IF e \in w.p.on THEN @[e] + 1 ELSE @[e]],
            !.p._events = [e \in EventNames |-> e \in w.p.on]]

\* The constructor up to the readiness test, lines 138-167 and 342-393.
\* sketch: a closure was passed, which attaches sketchHooks and the on<event>
\* hooks evHooks to the instance; globalFns: the user functions defined on
\* window. Without a closure the names of the instance are copied to window.
Constructed(sketch, sketchHooks, globalFns, evHooks, ready) ==
  LET inst == [NewInstance EXCEPT !._isGlobal = ~sketch,
                                  !.hooks = sketchHooks,
                                  !.on = evHooks]
      win  == IF sketch
                THEN [window EXCEPT !.hooks = globalFns]
                ELSE [present |-> OwnNames \cup ProtoNames, v |-> NoWindowVals,
                      hooks |-> globalFns]
  IN  BindEvents([World EXCEPT !.p = inst, !.window = win,
                               !.env.readyState = IF ready THEN "complete" ELSE "loading",
                               !.h.exposed = IF sketch THEN {} ELSE win.present,
                               !.out = <<"p5">>])

\* A faulty variant: the constructor starts without looking at readyState.
p5StartsAtOnce(sketch, sketchHooks, globalFns, evHooks, ready, drawOutcome) ==
  _start(Constructed(sketch, sketchHooks, globalFns, evHooks, ready), drawOutcome)

\* The constructor. ready: document.readyState === 'complete' (lines 396-400).
p5(sketch, sketchHooks, globalFns, evHooks, ready, drawOutcome) ==
  LET w == Constructed(sketch, sketchHooks, globalFns, evHooks, ready) IN
  IF ready THEN _start(w, drawOutcome) ELSE w

Construct(EvSets, D) ==
  /\ pc = "none"
  /\ \E sketch \in BOOLEAN, sketchHooks \in SUBSET Hooks,
        globalFns \in SUBSET Hooks, evHooks \in EvSets,
        ready \in BOOLEAN, d \in DrawOutcomes(D) :
       \* hooks reach the instance only through the sketch closure; one hook
       \* is looked at in one place
       /\ ~sketch => sketchHooks = {}
       /\ sketch => (globalFns \cap sketchHooks = {} /\ "setup" \notin globalFns)
       /\ LET w == p5(sketch, sketchHooks, globalFns, evHooks, ready, d) IN
            /\ Apply(w)
            /\ pc' = IF ~ready THEN "awaitReady"
                     ELSE IF UserHook(w, "preload") THEN "preload" ELSE "idle"
  /\ UNCHANGED _removeFuncs

\* The 'load' event of window, whose listener is _start.
LoadEvent(D) ==
  /\ pc = "awaitReady"
  /\ \E d \in DrawOutcomes(D) :
       LET w == _start([World EXCEPT !.out = <<>>, !.env.readyState = "complete"], d) IN
         /\ Apply(w)
         /\ pc' = IF UserHook(w, "preload") THEN "preload" ELSE "idle"
  /\ UNCHANGED _removeFuncs

\* context._preload(f, path) up to the call of the loader: one more load counted.
_preload(w) == _setProperty(w, "_preloadCount", CtxCount(w) + 1)

\* The completion callback handed to the loader (lines 210-217).
PreloadDone(w, drawOutcome) ==
  IF ~CtxMethods(w)
    THEN [w EXCEPT !.thrown = TRUE]        \* context._setProperty is not a function
    ELSE LET w1 == _setProperty(w, "_preloadCount", CtxCount(w) - 1) IN
         IF CtxCount(w1) = 0 THEN SetupRunDraw(w1, drawOutcome) ELSE w1

\* Inside the user preload hook: a loader call whose completion comes later.
LoaderCall ==
  /\ pc = "preload"
  /\ CtxLoadFuncs(World) = "wrapped"
  /\ h.loadsMade < MaxLoads
  /\ LET w == _preload([World EXCEPT !.out = <<"load">>]) IN
       Apply([w EXCEPT !.h.loadsMade = @ + 1, !.env.loads = @ + 1])
  /\ UNCHANGED <<pc, _removeFuncs>>

\* Inside the user preload hook: a loader call that completes before it returns.
\* An exception of the draw hook unwinds the loader, the preload hook and _start.
LoaderCallSync(D) ==
  /\ pc = "preload"
  /\ CtxLoadFuncs(World) = "wrapped"
  /\ h.loadsMade < MaxLoads
  /\ \E d \in DrawOutcomes(D) :
       LET w0 == _preload([World EXCEPT !.out = <<"load">>, !.h.loadsMade = @ + 1])
           w  == PreloadDone(Log(w0, "loaded"), d)
       IN  /\ Apply(w)
           /\ pc' = IF w.thrown THEN "idle" ELSE "preload"
  /\ UNCHANGED _removeFuncs

\* The user preload hook returns into _start (lines 195-199).
PreloadReturn(D) ==
  /\ pc = "preload"
  /\ \E d \in DrawOutcomes(D) :
       LET w0 == [World EXCEPT !.out = <<"preloadReturned">>] IN
       Apply(IF w0.p._preloadCount = 0 THEN SetupRunDraw(w0, d) ELSE w0)
  /\ pc' = "idle"
  /\ UNCHANGED _removeFuncs

\* A loader started earlier signals completion.
LoadComplete(D) ==
  /\ pc = "idle"
  /\ env.loads > 0
  /\ \E d \in DrawOutcomes(D) :
       Apply(PreloadDone([World EXCEPT !.out = <<"loaded">>, !.env.loads = @ - 1], d))
  /\ UNCHANGED <<pc, _removeFuncs>>

\* The timeout armed by _draw fires: window.requestDraw(this._draw.bind(this)).
DrawTimeout ==
  /\ pc = "idle"
  /\ env.timeout > 0
  /\ env.frameReqs < MaxReqs
  /\ env' = [env EXCEPT !.timeout = @ - 1, !.frameReqs = @ + 1]
  /\ out' = <<"requestDraw">>
  /\ UNCHANGED <<pc, p, window, _removeFuncs, h>>

\* The requested frame: _draw runs again.
DrawFrame(D) ==
  /\ pc = "idle"
  /\ env.frameReqs > 0
  /\ \E d \in DrawOutcomes(D) :
       Apply(_draw([World EXCEPT !.out = <<"frame">>, !.env.frameReqs = @ - 1], d))
  /\ UNCHANGED <<pc, _removeFuncs>>

\* A faulty variant: a firing counts two frames.
FrameTickTwice(w) == _setProperty(Log(w, "tick"), "frameCount", w.p.frameCount + 2)

\* The interval armed by _runFrames fires (lines 278-280).
FrameTick(w) == _setProperty(Log(w, "tick"), "frameCount", w.p.frameCount + 1)

Tick ==
  /\ pc = "idle"
  /\ env.ticker > 0
  /\ p.frameCount < MaxFrames
  /\ Apply(FrameTick([World EXCEPT !.out = <<>>]))
  /\ UNCHANGED <<pc, _removeFuncs>>

\* The focus and blur listeners of the constructor (lines 387-393).
FocusChange ==
  /\ pc \in {"awaitReady", "idle"}
  /\ \E b \in {"true", "false"} :
       Apply(_setProperty([World EXCEPT !.out = <<"focus">>], "focused", b))
  /\ UNCHANGED <<pc, _removeFuncs>>

RECURSIVE CallHooks(_, _, _)
\* this._removeFuncs.forEach(function(f) { self[f](); }) from hook i on; the
\* hook numbered failAt throws (or is not a function of the instance).
CallHooks(w, i, failAt) ==
  IF i > Len(_removeFuncs) THEN w
  ELSE IF i = failAt THEN [Log(w, _removeFuncs[i]) EXCEPT !.thrown = TRUE]
  ELSE CallHooks(Log(w, _removeFuncs[i]), i + 1, failAt)

\* Lines 296-303: stop draw.
RemoveStop(w) ==
  LET w1 == [w EXCEPT !.p._loop = FALSE]
      w2 == IF w1.p._drawInterval # 0
              THEN [w1 EXCEPT !.env.timeout = IF @ > 0 THEN @ - 1 ELSE 0] ELSE w1
      w3 == IF w2.p._updateInterval # 0
              THEN [w2 EXCEPT !.env.ticker = IF @ > 0 THEN @ - 1 ELSE 0] ELSE w2
  IN  Log(w3, "stop")

\* A faulty variant: the recorded handlers stay subscribed.
RemoveEventsKeep(w) == Log(w, "unsubscribe")

\* Lines 305-308: unregister events sketch-wide.
RemoveEvents(w) ==
  Log([w EXCEPT !.env.listeners = [e \in EventNames |->
                                     IF w.p._events[e] /\ @[e] > 0 THEN @[e] - 1 ELSE @[e]]],
      "unsubscribe")

\* Lines 310-319: remove DOM elements created by p5, and listeners.
RemoveElements(w) ==
  Log([w EXCEPT !.p._elements =
         [i \in 1..Len(@) |-> [attached |-> FALSE, evts |-> FALSE]]],
      "detach")

\* The own properties of the instance that the model names.
OwnProperties(w) ==
  OwnNames \cup (IF w.p.focused # "undefined" THEN {"focused"} ELSE {})

\* Lines 327-337: remove window bound properties and methods.
RemoveGlobals(w) ==
  IF w.p._isGlobal
    THEN LET gone == ProtoNames \cup OwnProperties(w) IN
         Log([w EXCEPT !.window.present = @ \ gone,
                       !.window.v = [n \in DOMAIN @ |->
                                       IF n \in gone THEN NoWindowVals[n] ELSE @[n]]],
             "unbind")
    ELSE w

\* A faulty variant: no guard on the current element.
removeUnguarded(w, failAt) ==
  LET w1 == RemoveElements(RemoveEvents(RemoveStop(w)))
      w2 == CallHooks(w1, 1, failAt)
  IN  IF w2.thrown
        THEN [w2 EXCEPT !.h.removed = IF @ = "returned" THEN @ ELSE "threw"]
        ELSE [RemoveGlobals(w2) EXCEPT !.h.removed = "returned"]

remove(w, failAt) ==
  IF w.p._curElement
    THEN LET w1 == RemoveElements(RemoveEvents(RemoveStop(w)))
             w2 == CallHooks(w1, 1, failAt)
         IN  IF w2.thrown
               THEN [w2 EXCEPT !.h.removed = IF @ = "returned" THEN @ ELSE "threw"]
               ELSE [RemoveGlobals(w2) EXCEPT !.h.removed = "returned"]
    ELSE w

\* User code calls remove() between callbacks.
Remove ==
  /\ pc \in {"awaitReady", "idle"}
  /\ \E failAt \in 0..Len(_removeFuncs) :
       Apply(remove([World EXCEPT !.out = <<"remove">>], failAt))
  /\ UNCHANGED <<pc, _removeFuncs>>

\* noLoop(): suspends the draw driver and cancels its pending timeout.
noLoop(w) ==
  LET w1 == [w EXCEPT !.p._loop = FALSE] IN
  IF w1.p._drawInterval # 0
    THEN [w1 EXCEPT !.env.timeout = IF @ > 0 THEN @ - 1 ELSE 0] ELSE w1

\* loop(): resumes the draw driver by running _draw.
loop(w, drawOutcome) == _draw([w EXCEPT !.p._loop = TRUE], drawOutcome)

NoLoop ==
  /\ pc = "idle" /\ p._setupDone /\ h.removed = "no" /\ p._loop
  /\ Apply(noLoop([World EXCEPT !.out = <<"noLoop">>]))
  /\ UNCHANGED <<pc, _removeFuncs>>

Loop(D) ==
  /\ pc = "idle" /\ p._setupDone /\ h.removed = "no" /\ ~p._loop
  /\ \E d \in DrawOutcomes(D) : Apply(loop([World EXCEPT !.out = <<"loop">>], d))
  /\ UNCHANGED <<pc, _removeFuncs>>

\* An element-creating capability records a new element, attached to the
\* document and carrying element-level handlers (the default canvas has none).
createElement(w) ==
  [w EXCEPT !.p._elements = Append(@, [attached |-> TRUE, evts |-> TRUE])]

CreateElement ==
  /\ pc = "idle" /\ h.removed = "no"
  /\ Len(p._elements) < MaxElts
  /\ Apply(createElement([World EXCEPT !.out = <<"createElement">>]))
  /\ UNCHANGED <<pc, _removeFuncs>>

\* A second instance on the same page, in Global mode, constructed and
\* started before this one: lines 349-367 put its names on window (a later
\* construction in Global mode overwrites them with its own). Its timers,
\* subscriptions and elements are its own and are not part of the model.
otherStart(w) ==
  [w EXCEPT !.window.present = @ \cup OwnNames \cup ProtoNames,
            !.env.other = "started"]

OtherStart ==
  /\ pc = "none"
  /\ env.other = "none"
  /\ Apply(otherStart([World EXCEPT !.out = <<"otherStart">>]))
  /\ UNCHANGED <<pc, _removeFuncs>>

\* remove() of the second instance, which has a current element: lines
\* 327-337 delete from window every name of the prototype and every name of
\* an own property of that instance, the same names this instance has.
otherRemove(w) ==
  LET gone == ProtoNames \cup OwnNames IN
  [w EXCEPT !.window.present = @ \ gone,
            !.window.v = [n \in DOMAIN @ |->
                            IF n \in gone THEN NoWindowVals[n] ELSE @[n]],
            !.env.other = "removed"]

OtherRemove ==
  /\ pc \in {"awaitReady", "idle"}
  /\ env.other = "started"
  /\ Apply(otherRemove([World EXCEPT !.out = <<"otherRemove">>]))
  /\ UNCHANGED <<pc, _removeFuncs>>

\* User code attaches an on<event> hook to the instance after construction.
\* The controller reads these hooks in the constructor only (lines 377-378).
attachHook(w, e) == [w EXCEPT !.p.on = @ \cup {e}]

AttachHook ==
  /\ pc \in {"awaitReady", "idle"}
  /\ \E e \in EventNames \ p.on :
       Apply(attachHook([World EXCEPT !.out = <<"attach">>], e))
  /\ UNCHANGED <<pc, _removeFuncs>>

\* User code calls a loader capability between callbacks, once the start
\* sequence has returned: through the counting wrapper if context[f] still
\* is one (lines 190-192), otherwise the capability itself, which does not
\* touch the controller.
lateLoad(w) ==
  IF CtxLoadFuncs(w) = "wrapped"
    THEN LET w1 == _preload(w) IN
         [w1 EXCEPT !.h.loadsMade = @ + 1, !.env.loads = @ + 1]
    ELSE w

LateLoaderCall ==
  /\ pc = "idle"
  /\ CtxLoadFuncs(World) # "undefined"
  /\ h.loadsMade < MaxLoads
  /\ Apply(lateLoad([World EXCEPT !.out = <<"load">>]))
  /\ UNCHANGED <<pc, _removeFuncs>>

Next ==
  \/ RegisterRemoveFunc
  \/ Construct(SUBSET EventNames, AnyOutcome)
  \/ LoadEvent(AnyOutcome)
  \/ LoaderCall
  \/ LoaderCallSync(AnyOutcome)
  \/ PreloadReturn(AnyOutcome)
  \/ LoadComplete(AnyOutcome)
  \/ DrawTimeout
  \/ DrawFrame(AnyOutcome)
  \/ Tick
  \/ FocusChange
  \/ Remove
  \/ NoLoop
  \/ Loop(AnyOutcome)
  \/ CreateElement
  \/ OtherStart
  \/ OtherRemove
  \/ AttachHook
  \/ LateLoaderCall

Spec == Init /\ [][Next]_vars

\* The start sequence and the frame scheduler, for a sketch without event
\* hooks, removal hooks, created elements or focus changes.
NextStart ==
  \/ Construct({{}}, AnyOutcome)
  \/ LoadEvent(AnyOutcome)
  \/ LoaderCall
  \/ LoaderCallSync(AnyOutcome)
  \/ PreloadReturn(AnyOutcome)
  \/ LoadComplete(AnyOutcome)
  \/ DrawTimeout
  \/ DrawFrame(AnyOutcome)
  \/ Tick
  \/ Remove
  \/ NoLoop
  \/ Loop(AnyOutcome)

SpecStart == Init /\ [][NextStart]_vars

\* Teardown in every state remove() can be called in, for draw hooks that
\* return and with the frame-count ticker armed but not observed firing.
NextTeardown ==
  \/ RegisterRemoveFunc
  \/ Construct(SUBSET EventNames, Returns)
  \/ LoadEvent(Returns)
  \/ LoaderCall
  \/ LoaderCallSync(Returns)
  \/ PreloadReturn(Returns)
  \/ LoadComplete(Returns)
  \/ DrawTimeout
  \/ DrawFrame(Returns)
  \/ FocusChange
  \/ Remove
  \/ NoLoop
  \/ Loop(Returns)
  \/ CreateElement

SpecTeardown == Init /\ [][NextTeardown]_vars

\* The draw driver with _draw invoked from _start, from preload completions
\* and from the driver itself only.
NextDriver ==
  \/ Construct({{}}, AnyOutcome)
  \/ LoadEvent(AnyOutcome)
  \/ LoaderCall
  \/ LoaderCallSync(AnyOutcome)
  \/ PreloadReturn(AnyOutcome)
  \/ LoadComplete(AnyOutcome)
  \/ DrawTimeout
  \/ DrawFrame(AnyOutcome)
  \/ Tick

SpecDriver == Init /\ [][NextDriver]_vars

\* Event subscriptions over the life of a sketch whose draw hook returns.
NextEvents ==
  \/ Construct(SUBSET EventNames, Returns)
  \/ LoadEvent(Returns)
  \/ LoaderCall
  \/ PreloadReturn(Returns)
  \/ LoadComplete(Returns)
  \/ DrawTimeout
  \/ DrawFrame(Returns)
  \/ AttachHook
  \/ Remove

SpecEvents == Init /\ [][NextEvents]_vars

\* The preload gate, with loader calls made inside the preload hook and after
\* the start sequence.
NextGate ==
  \/ Construct({{}}, Returns)
  \/ LoadEvent(Returns)
  \/ LoaderCall
  \/ LoaderCallSync(Returns)
  \/ PreloadReturn(Returns)
  \/ LoadComplete(Returns)
  \/ LateLoaderCall
  \/ DrawTimeout
  \/ DrawFrame(Returns)

SpecGate == Init /\ [][NextGate]_vars

\* Two instances on one page: this one, and a second one in Global mode.
NextTwo ==
  \/ OtherStart
  \/ Construct({{}}, Returns)
  \/ LoadEvent(Returns)
  \/ LoaderCall
  \/ PreloadReturn(Returns)
  \/ LoadComplete(Returns)
  \/ DrawTimeout
  \/ DrawFrame(Returns)
  \/ Remove
  \/ OtherRemove

SpecTwo == Init /\ [][NextTwo]_vars

-----------------------------------------------------------------------------
\* Reading the calls of a step.
Has(seq, e)   == \E i \in 1..Len(seq) : seq[i] = e
Count(seq, e) == Cardinality({i \in 1..Len(seq) : seq[i] = e})
First(seq)    == IF seq = <<>> THEN "" ELSE seq[1]
Only(seq, S)  == SelectSeq(seq, LAMBDA x : x \in S)

Subscribed(e)  == {ev \in EventNames : e.listeners[ev] > 0}
Recorded(inst) == {e \in EventNames : inst._events[e]}
Detached(inst) == \A i \in 1..Len(inst._elements) : ~inst._elements[i].attached

\* C1: the user setup hook is invoked once over the life of the instance, and
\* only when every loader call triggered during preload has signalled
\* completion: a step that invokes it invokes it once, starts with setup not
\* yet done and ends with no load in flight.
C1_SetupOnceAfterLoads ==
  [][Has(out', "setup") =>
       /\ Count(out', "setup") = 1
       /\ ~p._setupDone
       /\ env'.loads = 0]_vars

\* C2: without a preload hook on the instance or on window, the step that
\* runs _start runs _setup in it, once, and invokes the user setup hook once
\* if there is one; when the document is complete at construction that step
\* is the constructor; no other step runs _setup.
C2_SetupSynchronousInStart ==
  /\ [][(Has(out', "_start") /\ "preload" \notin (p'.hooks \cup window'.hooks)) =>
          /\ ~p._setupDone /\ p'._setupDone
          /\ Count(out', "setupDone") = 1
          /\ ("setup" \in (IF p'._isGlobal THEN window'.hooks ELSE p'.hooks)
                => Count(out', "setup") = 1)
          /\ pc' = "idle"]_vars
  /\ [][(First(out') = "p5" /\ env'.readyState = "complete"
           /\ "preload" \notin (p'.hooks \cup window'.hooks)) =>
          Has(out', "setupDone")]_vars
  /\ [][(Has(out', "setupDone") /\ "preload" \notin (p'.hooks \cup window'.hooks)) =>
          Has(out', "_start")]_vars

C2_Witness ==
  /\ First(out) = "p5"
  /\ Has(out, "_start") /\ Has(out, "setup") /\ Has(out, "setupDone")
  /\ "preload" \notin (p.hooks \cup window.hooks)
  /\ p._setupDone

\* C3: on every start path the step in which setup completes goes on to arm
\* the frame-count ticker and then to run the first draw, in that order, and
\* no step invokes the user draw hook or changes frameCount unless setup has
\* completed by then.
C3_SetupThenTickerThenDraw ==
  /\ [][(~p._setupDone /\ p'._setupDone) =>
          /\ Only(out', {"setupDone", "runFrames", "_draw", "draw", "tick"})
               = <<"setupDone", "runFrames", "_draw">>
                 \o (IF "draw" \in (p'.hooks \cup window'.hooks)
                       THEN <<"draw">> ELSE <<>>)
          /\ env'.ticker = 1]_vars
  /\ [][(Has(out', "draw") \/ Has(out', "tick") \/ p'.frameCount # p.frameCount) =>
          p'._setupDone]_vars

C3_Witness ==
  /\ First(out) = "loaded"
  /\ Has(out, "setupDone") /\ Has(out, "draw")
  /\ h.loadsMade = 2 /\ env.loads = 0
  /\ p._setupDone

\* C4: while _loop stays false the user draw hook is not executed.
C4_NoDrawWhilePaused ==
  [][(~p._loop /\ ~p'._loop) => ~Has(out', "draw")]_vars

\* C5 as stated: after any call of remove(), whatever the state it is called
\* in, no handler recorded in _events is subscribed to window and every
\* element of _elements is detached.
C5_RemoveAlwaysUnsubscribes ==
  [][First(out') = "remove" =>
       /\ Subscribed(env') \cap Recorded(p) = {}
       /\ Detached(p')]_vars

\* C5 as amended: after a call of remove() made while there is a current
\* element, no handler recorded in _events before the call is subscribed to
\* window and every element of _elements is detached.
C5_RemoveUnsubscribes ==
  [][(First(out') = "remove" /\ p._curElement) =>
       /\ Subscribed(env') \cap Recorded(p) = {}
       /\ Detached(p')]_vars

C5_Witness ==
  /\ First(out) = "remove"
  /\ p._curElement
  /\ Recorded(p) = EventNames
  /\ Len(p._elements) = 2
  /\ env.loads > 0
  /\ Subscribed(env) = {}

\* C6: in Global mode, once remove() has returned, no name the controller
\* had put on window before is present on window.
C6_GlobalsGoneAfterRemove ==
  (p._isGlobal /\ h.removed = "returned") => window.present \cap h.exposed = {}

\* C7: remove() called without a current element changes nothing: no state
\* of the instance, no timer, no subscription, no element, no name on
\* window, and it invokes no removal hook.
C7_RemoveWithoutElementIsNoOp ==
  [][(First(out') = "remove" /\ ~p._curElement) =>
       /\ out' = <<"remove">>
       /\ UNCHANGED <<pc, p, window, env, _removeFuncs, h>>]_vars

C7_Witness ==
  /\ out = <<"remove">>
  /\ ~p._curElement
  /\ p._isGlobal
  /\ Subscribed(env) # {}

\* C8: once a call of remove() has torn the instance down, a later call
\* invokes no removal hook and changes nothing.
C8_TeardownOnce ==
  [][(First(out') = "remove" /\ h.removed # "no") =>
       /\ \A i \in 1..Len(_removeFuncs) : ~Has(out', _removeFuncs[i])
       /\ UNCHANGED <<p, window, env>>]_vars

\* C9: frameCount changes only when the frame-count ticker fires, by exactly
\* one per firing, whatever the draw hook does.
C9_FrameCountByTickerOnly ==
  [][/\ p'.frameCount # p.frameCount =>
          /\ out' = <<"tick">>
          /\ env.ticker > 0
          /\ p'.frameCount = p.frameCount + 1
     /\ Has(out', "tick") => p'.frameCount = p.frameCount + 1]_vars

C9_Witness ==
  /\ p.frameCount = 2
  /\ p.styles > 0
  /\ out = <<"tick">>

\* C10: remove() with a current element performs all five teardown steps in
\* order, every removal hook in registration order, whether or not a hook
\* throws.
C10_AllTeardownSteps ==
  [][(First(out') = "remove" /\ p._curElement) =>
       out' = <<"remove", "stop", "unsubscribe", "detach">> \o _removeFuncs
              \o (IF p._isGlobal THEN <<"unbind">> ELSE <<>>)]_vars

\* C11: while the document has not reported ready, no preload, setup or draw
\* hook has been invoked and neither timer is armed; a construction that
\* finds the document complete runs _start in the constructor, one that does
\* not runs it in the step of the load event; and _start runs once: a step
\* that runs it runs it once and begins with no current element, which
\* _start sets and nothing clears.
C11_StartOnceWhenReady ==
  /\ [][env'.readyState # "complete" =>
          /\ \A e \in Hooks \cup {"_start"} : ~Has(out', e)
          /\ env'.ticker = 0 /\ env'.timeout = 0 /\ env'.frameReqs = 0
          /\ ~p'._setupDone /\ ~p'._curElement]_vars
  /\ [][(First(out') = "p5" /\ env'.readyState = "complete") =>
          Has(out', "_start")]_vars
  /\ [][(pc = "awaitReady" /\ env'.readyState = "complete") =>
          Has(out', "_start")]_vars
  /\ [][Has(out', "_start") =>
          /\ Count(out', "_start") = 1
          /\ ~p._curElement /\ p'._curElement]_vars

C11_Witness ==
  /\ First(out) = "_start"
  /\ env.readyState = "complete"
  /\ Has(out, "setup") /\ Has(out, "draw")
  /\ env.ticker = 1 /\ env.timeout = 1
  /\ p._curElement

\* What an instance owns: its fields, its timers, frame requests, loads and
\* subscriptions, and the names it has put on window.
Owned == <<p, env.ticker, env.timeout, env.frameReqs, env.loads, env.listeners,
           window.present \cap h.exposed>>

\* C12: with a second instance on the page, no operation of that instance
\* changes what this instance owns (its fields, timers, subscriptions,
\* elements, the names it mirrors on window), and this instance invokes only
\* the user hooks of its own sketch.
C12_InstancesIndependent ==
  /\ [][env'.other # env.other => Owned' = Owned]_vars
  /\ [][(env'.other # "none" /\ ~p'._isGlobal) =>
          \A hk \in Hooks : Has(out', hk) => hk \in p'.hooks]_vars

\* C13: after a step that ran _draw, whether the user draw hook returned or
\* threw, the stack of saved drawing states is as deep as before the step.
C13_PushPopBalanced ==
  [][Has(out', "_draw") => p'.styles = p.styles]_vars

\* The names of instance state that Global mode mirrors on window.
Mirrored == {"_setupDone", "_loop", "_preloadCount", "_updateInterval", "frameCount"}

\* C14: in Global mode, from the end of construction until remove() tears
\* down, every mirrored state property has the same value on the instance
\* and on window.
C14_MirrorConsistent ==
  (p._isGlobal /\ pc # "none" /\ h.removed = "no") =>
     \A n \in Mirrored : n \in window.present /\ window.v[n] = p[n]

\* C15: at most one draw-driver callback is pending: an armed timeout or a
\* frame request issued by a fired timeout.
C15_OneDrawCallbackPending ==
  env.timeout + env.frameReqs <= 1

\* C16: at most one frame-count ticker is armed in every state, and a step
\* that calls _runFrames, once or several times, ends with exactly one armed.
C16_OneTicker ==
  /\ [](env.ticker <= 1)
  /\ [][Has(out', "runFrames") => env'.ticker = 1]_vars

\* _runFrames called again with a ticker armed: the preload hook returns with
\* no load pending after loads that had completed inside it.
C16_Witness ==
  /\ First(out) = "preloadReturned"
  /\ Has(out, "runFrames")
  /\ h.loadsMade > 0
  /\ env.ticker = 1

\* C17: from construction until remove() tears down, window holds one
\* subscription of the instance for an event type if _events records a
\* handler for it and none otherwise; the handlers recorded are those of the
\* on<event> hooks present at construction; and after construction no step
\* records or subscribes a handler, so a hook attached later is never
\* subscribed.
C17_SubscribedIffRecorded ==
  /\ []((pc # "none" /\ h.removed = "no") =>
          \A e \in EventNames : env.listeners[e] = IF p._events[e] THEN 1 ELSE 0)
  /\ [][First(out') = "p5" => Recorded(p') = p'.on]_vars
  /\ [][pc # "none" =>
          /\ p'._events = p._events
          /\ \A e \in EventNames : env'.listeners[e] <= env.listeners[e]
          /\ First(out') # "remove" => env'.listeners = env.listeners]_vars

C17_Witness ==
  /\ out = <<"attach">>
  /\ pc = "idle" /\ h.removed = "no"
  /\ p.on = EventNames
  /\ Recorded(p) = {"mousemove"}
  /\ Subscribed(env) = {"mousemove"}

\* C18: once remove() has torn down, no step invokes the user setup or draw
\* hook, changes frameCount, or arms the frame-count ticker or the draw
\* driver again.
C18_StaysStopped ==
  [][h.removed # "no" =>
       /\ ~Has(out', "setup") /\ ~Has(out', "draw")
       /\ p'.frameCount = p.frameCount
       /\ env'.ticker <= env.ticker
       /\ env'.timeout <= env.timeout]_vars

\* C19: a step in which _draw runs with _loop true and the user draw hook
\* throws ends with the timeout of the next cycle armed: the exception leaves
\* _draw at the hook, so the timeout was armed before the hook was called.
C19_ArmedBeforeHook ==
  [][(Has(out', "draw") /\ p'.styles # p.styles /\ p'._loop) =>
       /\ env'.timeout = 1
       /\ p'._drawInterval # 0]_vars

C19_Witness ==
  /\ out = <<"frame", "_draw", "draw">>
  /\ p.styles = 1
  /\ p._loop
  /\ env.timeout = 1
  /\ env.frameReqs = 0

\* C20: once setup has run, a loader call does not change _preloadCount and
\* the completion of a load does not run _setup again.
C20_GateClosedAfterSetup ==
  [][p._setupDone =>
       /\ First(out') = "load" => p'._preloadCount = p._preloadCount
       /\ First(out') = "loaded" => ~Has(out', "setupDone")]_vars

====
